---- MODULE Spec2Model ----
(***************************************************************************)
(* latex-math-convert: the scanner convertMarkdown of                      *)
(* src/bin/latex-math-convert.js as a state machine (one action per branch  *)
(* of its main loop), and the command line front end main/parseArgs.        *)
(*                                                                          *)
(* A text is a sequence of one-character strings.  Positions are 0-based    *)
(* as in the source: At(s, k) is s[k] of JavaScript.                        *)
(***************************************************************************)
EXTENDS Integers, Sequences, FiniteSets, TLC

VARIABLES
    md,           \* the input text of convertMarkdown (never assigned)
    i,            \* scan position, 0-based
    out,          \* output accumulator
    inFence,      \* inside a fenced block
    fenceMarker,  \* Null, or the marker that opened the fence
    inInline,     \* Null (false), or the backtick run that opened inline code
    pc,           \* "scan" in the while loop, "done" after return; "idle" when not called
    log,          \* history: one record per loop iteration executed
    argv,         \* process.argv
    input,        \* environment: the text on standard input
    stdinFails,   \* environment: reading standard input raises
    disk,         \* environment: the text of each file
    mpc,          \* position of main: "start", "done"; "idle" when main is not run
    printed,      \* what was written to standard output, in order
    errors,       \* what was written to standard error, in order
    exitCode      \* process.exitCode: 0 while undefined

vars == <<md, i, out, inFence, fenceMarker, inInline, pc, log,
          argv, input, stdinFails, disk, mpc, printed, errors, exitCode>>

----------------------------------------------------------------------------
(* Bounds of the model *)

\* longest input drawn character by character from Alphabet
MaxLen == 3
\* longest input drawn token by token from Tokens
MaxTok == 4
\* most lines of an input drawn line by line from Lines
MaxLines == 3
\* most command line arguments
MaxArgs == 3

----------------------------------------------------------------------------
(* Characters and literals of the source *)

Null == <<>>
BS == "\\"
TICK == "BACKTICK"    \* the backquote character, which a TLA+ string cannot hold
TILDE == "~"
NL == "\n"
Undefined == "undefined"

Backticks3 == <<TICK, TICK, TICK>>
Tildes3    == <<TILDE, TILDE, TILDE>>
OpenParen    == <<BS, "(">>
CloseParen   == <<BS, ")">>
OpenBracket  == <<BS, "[">>
CloseBracket == <<BS, "]">>
Dollar  == <<"$">>
Dollar2 == <<"$", "$">>

\* the white space String.prototype.trim removes, within the alphabet of the model
WhiteSpace == {" ", "\t", NL}

----------------------------------------------------------------------------
(* String primitives of JavaScript used by the scanner *)

\* s[k]: undefined outside 0..length-1
At(s, k) == IF k >= 0 /\ k < Len(s) THEN s[k + 1] ELSE Undefined

\* s.startsWith(pat, pos)
StartsWith(s, pat, pos) ==
    \A d \in 1..Len(pat) : At(s, pos + d - 1) = pat[d]

\* s.slice(a, b) for 0 <= a, b <= length
Slice(s, a, b) == SubSeq(s, a + 1, b)

\* s.indexOf(c, from): the first position >= from holding c, or -1
RECURSIVE IndexOf(_, _, _)
IndexOf(s, c, from) ==
    IF from >= Len(s) THEN -1
    ELSE IF At(s, from) = c THEN from
    ELSE IndexOf(s, c, from + 1)

RECURSIVE TrimStart(_)
TrimStart(buf) ==
    IF buf # <<>> /\ Head(buf) \in WhiteSpace THEN TrimStart(Tail(buf)) ELSE buf

RECURSIVE TrimEnd(_)
TrimEnd(buf) ==
    IF buf # <<>> /\ buf[Len(buf)] \in WhiteSpace
    THEN TrimEnd(SubSeq(buf, 1, Len(buf) - 1))
    ELSE buf

\* buf.trim()
Trim(buf) == TrimEnd(TrimStart(buf))

\* "`".repeat(k)
RECURSIVE Repeat(_, _)
Repeat(c, k) == IF k <= 0 THEN <<>> ELSE <<c>> \o Repeat(c, k - 1)

----------------------------------------------------------------------------
(* The loop body of convertMarkdown, branch by branch, on a scan state      *)
(* st = [i, out, inFence, fenceMarker, inInline] over the text s.           *)

InitScan ==
    [i |-> 0, out |-> <<>>, inFence |-> FALSE, fenceMarker |-> Null,
     inInline |-> Null]

LineStart(s, k) == k = 0 \/ At(s, k - 1) = NL

\* while (j < n && (md[j] === ' ' || md[j] === '\t')) j++;
RECURSIVE SkipIndent(_, _)
SkipIndent(s, j) ==
    IF j < Len(s) /\ (At(s, j) = " " \/ At(s, j) = "\t")
    THEN SkipIndent(s, j + 1)
    ELSE j

\* mutant: only ``` opens a fence
OpensFenceBackticksOnly(s, st) ==
    /\ ~st.inFence
    /\ StartsWith(s, Backticks3, SkipIndent(s, st.i))

\* the line start opens a fence
OpensFence(s, st) ==
    /\ ~st.inFence
    /\ \/ StartsWith(s, Backticks3, SkipIndent(s, st.i))
       \/ StartsWith(s, Tildes3, SkipIndent(s, st.i))

\* mutant: either marker closes the fence
ClosesFenceAnyMarker(s, st) ==
    /\ st.inFence
    /\ \/ StartsWith(s, Backticks3, SkipIndent(s, st.i))
       \/ StartsWith(s, Tildes3, SkipIndent(s, st.i))

\* the line start closes the fence
ClosesFence(s, st) ==
    /\ st.inFence
    /\ st.fenceMarker # Null
    /\ StartsWith(s, st.fenceMarker, SkipIndent(s, st.i))

\* mutant: the inside of a fence is scanned like prose
FenceNever(st) == FALSE

\* if (inFence)
FenceActive(st) == st.inFence

\* mutant: inline code is never seen as active
InlineNever(st) == FALSE

\* if (inInline)
InlineActive(st) == st.inInline # Null

\* mutant: the fence checks are made inside inline code too
FenceCheckedInInline(s, st) == LineStart(s, st.i)

\* the fence checks are made at this position
FenceChecked(s, st) == st.inInline = Null /\ LineStart(s, st.i)

\* mutant: the newline of a fence line is not copied
CopyLineNoNewline(s, st) ==
    LET j    == SkipIndent(s, st.i)
        eol  == IndexOf(s, NL, j)
        line == Slice(s, st.i, IF eol = -1 THEN Len(s) ELSE eol)
        k    == st.i + Len(line)
    IN  IF k < Len(s) /\ At(s, k) = NL
        THEN [st EXCEPT !.out = st.out \o line, !.i = k + 1]
        ELSE [st EXCEPT !.out = st.out \o line, !.i = k]

\* mutant: a newline is counted after the fence line even at the end of input
CopyLineAlwaysNewline(s, st) ==
    LET j    == SkipIndent(s, st.i)
        eol  == IndexOf(s, NL, j)
        line == Slice(s, st.i, IF eol = -1 THEN Len(s) ELSE eol)
        k    == st.i + Len(line)
    IN  [st EXCEPT !.out = (st.out \o line) \o <<NL>>, !.i = k + 1]

\* const line = md.slice(i, eol === -1 ? n : eol); out += line; i += line.length;
\* if (i < n && md[i] === "\n") { out += "\n"; i++; }
CopyLine(s, st) ==
    LET j    == SkipIndent(s, st.i)
        eol  == IndexOf(s, NL, j)
        line == Slice(s, st.i, IF eol = -1 THEN Len(s) ELSE eol)
        k    == st.i + Len(line)
    IN  IF k < Len(s) /\ At(s, k) = NL
        THEN [st EXCEPT !.out = (st.out \o line) \o <<NL>>, !.i = k + 1]
        ELSE [st EXCEPT !.out = st.out \o line, !.i = k]

\* mutant: a run of four backticks is recorded as the marker
FenceOpenStepWholeRun(s, st) ==
    LET j == SkipIndent(s, st.i)
        opened == [st EXCEPT !.inFence = TRUE,
                             !.fenceMarker = IF StartsWith(s, Backticks3 \o <<TICK>>, j)
                                             THEN Backticks3 \o <<TICK>>
                                             ELSE IF StartsWith(s, Backticks3, j)
                                             THEN Backticks3 ELSE Tildes3]
    IN  CopyLine(s, opened)

FenceOpenStep(s, st) ==
    LET j == SkipIndent(s, st.i)
        opened == [st EXCEPT !.inFence = TRUE,
                             !.fenceMarker = IF StartsWith(s, Backticks3, j)
                                             THEN Backticks3 ELSE Tildes3]
    IN  CopyLine(s, opened)

\* mutant: the closing line is copied and the fence is not left
FenceCloseStepNoReset(s, st) == CopyLine(s, st)

\* mutant: the marker is not cleared when the fence is left
FenceCloseStepKeepsMarker(s, st) == [CopyLine(s, st) EXCEPT !.inFence = FALSE]

FenceCloseStep(s, st) ==
    [CopyLine(s, st) EXCEPT !.inFence = FALSE, !.fenceMarker = Null]

\* mutant: the character is skipped, not copied
CopyCharSkips(s, st) == [st EXCEPT !.i = st.i + 1]

\* out += md[i++];
CopyChar(s, st) ==
    [st EXCEPT !.out = Append(st.out, At(s, st.i)), !.i = st.i + 1]

\* while (i + tickCount < n && md[i + tickCount] === "`") tickCount++;
RECURSIVE TickCount(_, _, _)
TickCount(s, k, tickCount) ==
    IF k + tickCount < Len(s) /\ At(s, k + tickCount) = TICK
    THEN TickCount(s, k, tickCount + 1)
    ELSE tickCount

\* mutant: the backtick run is not copied to the output
BacktickStepSilent(s, st) ==
    LET tickCount == TickCount(s, st.i, 0)
        delimiter == Repeat(TICK, tickCount)
        skipped   == [st EXCEPT !.i = st.i + tickCount]
    IN  IF st.inInline = Null THEN [skipped EXCEPT !.inInline = delimiter]
        ELSE IF st.inInline = delimiter THEN [skipped EXCEPT !.inInline = Null]
        ELSE skipped

\* mutant: any backtick run closes inline code
BacktickStepAnyRunCloses(s, st) ==
    LET tickCount == TickCount(s, st.i, 0)
        delimiter == Repeat(TICK, tickCount)
        copied    == [st EXCEPT !.out = st.out \o delimiter,
                                !.i = st.i + tickCount]
    IN  IF st.inInline = Null THEN [copied EXCEPT !.inInline = delimiter]
        ELSE [copied EXCEPT !.inInline = Null]

BacktickStep(s, st) ==
    LET tickCount == TickCount(s, st.i, 0)
        delimiter == Repeat(TICK, tickCount)
        copied    == [st EXCEPT !.out = st.out \o delimiter,
                                !.i = st.i + tickCount]
    IN  IF st.inInline = Null THEN [copied EXCEPT !.inInline = delimiter]
        ELSE IF st.inInline = delimiter THEN [copied EXCEPT !.inInline = Null]
        ELSE copied

\* mutant: the math content ends at the end of the line
RECURSIVE ReadMathToLine(_, _, _, _)
ReadMathToLine(s, close, k, buf) ==
    IF k < Len(s) /\ ~StartsWith(s, close, k) /\ At(s, k) # NL
    THEN ReadMathToLine(s, close, k + 1, Append(buf, At(s, k)))
    ELSE [i |-> k, buf |-> buf]

\* mutant: the math content ends at a backtick
RECURSIVE ReadMathToTick(_, _, _, _)
ReadMathToTick(s, close, k, buf) ==
    IF k < Len(s) /\ ~StartsWith(s, close, k) /\ At(s, k) # TICK
    THEN ReadMathToTick(s, close, k + 1, Append(buf, At(s, k)))
    ELSE [i |-> k, buf |-> buf]

\* while (i < n && !md.startsWith(close, i)) { buf += md[i++]; }
RECURSIVE ReadMath(_, _, _, _)
ReadMath(s, close, k, buf) ==
    IF k < Len(s) /\ ~StartsWith(s, close, k)
    THEN ReadMath(s, close, k + 1, Append(buf, At(s, k)))
    ELSE [i |-> k, buf |-> buf]

\* mutant: the closing delimiter is not skipped
SkipCloseNever(s, close, k) == k

\* i += 2 if the closing delimiter is there
SkipClose(s, close, k) ==
    IF k < Len(s) /\ StartsWith(s, close, k) THEN k + 2 ELSE k

MathStep(s, st, close, dollars) ==
    LET r       == ReadMath(s, close, st.i + 2, <<>>)
        trimmed == Trim(r.buf)
    IN  [st EXCEPT !.out = ((st.out \o dollars) \o trimmed) \o dollars,
                   !.i = SkipClose(s, close, r.i)]

\* mutant: the inline math content is emitted untrimmed
InlineMathNoTrim(s, st) ==
    LET r == ReadMath(s, CloseParen, st.i + 2, <<>>)
    IN  [st EXCEPT !.out = ((st.out \o Dollar) \o r.buf) \o Dollar,
                   !.i = SkipClose(s, CloseParen, r.i)]

InlineMathStep(s, st) == MathStep(s, st, CloseParen, Dollar)

\* mutant: the closing \] of display math is left in the input
DisplayMathKeepsClose(s, st) ==
    LET r == ReadMath(s, CloseBracket, st.i + 2, <<>>)
    IN  [st EXCEPT !.out = ((st.out \o Dollar2) \o Trim(r.buf)) \o Dollar2,
                   !.i = r.i]

DisplayMathStep(s, st) == MathStep(s, st, CloseBracket, Dollar2)

\* mutant: the backtick test comes before the fence checks
BranchTicksFirst(s, st) ==
    IF ~FenceActive(st) /\ At(s, st.i) = TICK THEN "backtick"
    ELSE IF FenceChecked(s, st) /\ OpensFence(s, st) THEN "fenceOpen"
    ELSE IF FenceChecked(s, st) /\ ClosesFence(s, st) THEN "fenceClose"
    ELSE IF FenceActive(st) THEN "fenceCopy"
    ELSE IF InlineActive(st) THEN "inlineCopy"
    ELSE IF StartsWith(s, OpenParen, st.i) THEN "inlineMath"
    ELSE IF StartsWith(s, OpenBracket, st.i) THEN "displayMath"
    ELSE "copy"

\* the branch of the loop body taken at st: the if chain, in its order
Branch(s, st) ==
    IF FenceChecked(s, st) /\ OpensFence(s, st) THEN "fenceOpen"
    ELSE IF FenceChecked(s, st) /\ ClosesFence(s, st) THEN "fenceClose"
    ELSE IF FenceActive(st) THEN "fenceCopy"
    ELSE IF At(s, st.i) = TICK THEN "backtick"
    ELSE IF InlineActive(st) THEN "inlineCopy"
    ELSE IF StartsWith(s, OpenParen, st.i) THEN "inlineMath"
    ELSE IF StartsWith(s, OpenBracket, st.i) THEN "displayMath"
    ELSE "copy"

\* one iteration of the loop body
Iterate(s, st) ==
    CASE Branch(s, st) = "fenceOpen"   -> FenceOpenStep(s, st)
      [] Branch(s, st) = "fenceClose"  -> FenceCloseStep(s, st)
      [] Branch(s, st) = "fenceCopy"   -> CopyChar(s, st)
      [] Branch(s, st) = "backtick"    -> BacktickStep(s, st)
      [] Branch(s, st) = "inlineCopy"  -> CopyChar(s, st)
      [] Branch(s, st) = "inlineMath"  -> InlineMathStep(s, st)
      [] Branch(s, st) = "displayMath" -> DisplayMathStep(s, st)
      [] OTHER                         -> CopyChar(s, st)

\* convertMarkdown(md) as a function: while (i < n) { ... } return out;
RECURSIVE RunScan(_, _)
RunScan(s, st) == IF st.i < Len(s) THEN RunScan(s, Iterate(s, st)) ELSE st.out

convertMarkdown(s) == RunScan(s, InitScan)

----------------------------------------------------------------------------
(* Inputs *)

Alphabet == {BS, "(", ")", "[", "]", TICK, TILDE, NL, " ", "\t", "a"}

Tokens == {OpenParen, CloseParen, OpenBracket, CloseBracket,
           <<TICK>>, <<NL>>, <<" ">>, <<"a">>}

\* lines, each taken with its newline; the last line of an input may lack it
Lines == {Backticks3,
          Tildes3,
          <<" ", "\t", TICK>> \o Backticks3 \o <<"a">>,
          OpenParen \o <<" ", "a", " ", "a", "\t">> \o CloseParen,
          OpenBracket \o <<" ", "a">>,
          <<TICK, "$", "a", "$">>,
          <<TICK>> \o CloseBracket}

RECURSIVE SeqsUpTo(_, _)
SeqsUpTo(S, k) ==
    IF k = 0 THEN {<<>>}
    ELSE LET shorter == SeqsUpTo(S, k - 1)
         IN  shorter \cup {Append(q, x) : q \in shorter, x \in S}

RECURSIVE Flatten(_)
Flatten(q) == IF q = <<>> THEN <<>> ELSE Head(q) \o Flatten(Tail(q))

RECURSIVE JoinLines(_)
JoinLines(q) ==
    IF q = <<>> THEN <<>> ELSE (Head(q) \o <<NL>>) \o JoinLines(Tail(q))

\* t without a final newline
Chomp(t) == IF t # <<>> /\ t[Len(t)] = NL THEN SubSeq(t, 1, Len(t) - 1) ELSE t

Inputs ==
    LET byChar  == SeqsUpTo(Alphabet, MaxLen)
        byToken == {Flatten(q) : q \in SeqsUpTo(Tokens, MaxTok)}
        byLine  == {JoinLines(q) : q \in SeqsUpTo(Lines, MaxLines)}
    IN  byChar \cup byToken \cup byLine \cup {Chomp(t) : t \in byLine}

----------------------------------------------------------------------------
(* The scanner as a state machine *)

Cur == [i |-> i, out |-> out, inFence |-> inFence,
        fenceMarker |-> fenceMarker, inInline |-> inInline]

Commit(st, br) ==
    /\ i' = st.i
    /\ out' = st.out
    /\ inFence' = st.inFence
    /\ fenceMarker' = st.fenceMarker
    /\ inInline' = st.inInline
    /\ log' = Append(log, [br |-> br, i0 |-> i, i1 |-> st.i, out0 |-> out,
                           fence0 |-> inFence, inline0 |-> inInline,
                           marker0 |-> fenceMarker,
                           fence1 |-> st.inFence, inline1 |-> st.inInline,
                           marker1 |-> st.fenceMarker])
    /\ UNCHANGED <<md, pc, argv, input, stdinFails, disk, mpc, printed, errors, exitCode>>

Looping == pc = "scan" /\ i < Len(md)

InitScanner ==
    /\ md \in Inputs
    /\ i = InitScan.i
    /\ out = InitScan.out
    /\ inFence = InitScan.inFence
    /\ fenceMarker = InitScan.fenceMarker
    /\ inInline = InitScan.inInline
    /\ pc = "scan"
    /\ log = <<>>

\* main is not run
IdleCli ==
    /\ argv = <<>>
    /\ input = <<>>
    /\ stdinFails = FALSE
    /\ disk = <<>>
    /\ mpc = "idle"
    /\ printed = <<>>
    /\ errors = <<>>
    /\ exitCode = 0

Init == InitScanner /\ IdleCli

FenceOpen ==
    Looping /\ Branch(md, Cur) = "fenceOpen" /\ Commit(FenceOpenStep(md, Cur), "fenceOpen")

FenceClose ==
    Looping /\ Branch(md, Cur) = "fenceClose" /\ Commit(FenceCloseStep(md, Cur), "fenceClose")

FenceCopy ==
    Looping /\ Branch(md, Cur) = "fenceCopy" /\ Commit(CopyChar(md, Cur), "fenceCopy")

BacktickRun ==
    Looping /\ Branch(md, Cur) = "backtick" /\ Commit(BacktickStep(md, Cur), "backtick")

InlineCopy ==
    Looping /\ Branch(md, Cur) = "inlineCopy" /\ Commit(CopyChar(md, Cur), "inlineCopy")

InlineMath ==
    Looping /\ Branch(md, Cur) = "inlineMath" /\ Commit(InlineMathStep(md, Cur), "inlineMath")

DisplayMath ==
    Looping /\ Branch(md, Cur) = "displayMath" /\ Commit(DisplayMathStep(md, Cur), "displayMath")

DefaultCopy ==
    Looping /\ Branch(md, Cur) = "copy" /\ Commit(CopyChar(md, Cur), "copy")

Return ==
    /\ pc = "scan"
    /\ ~(i < Len(md))
    /\ pc' = "done"
    /\ UNCHANGED <<md, i, out, inFence, fenceMarker, inInline, log,
                   argv, input, stdinFails, disk, mpc, printed, errors, exitCode>>

Next ==
    \/ FenceOpen
    \/ FenceClose
    \/ FenceCopy
    \/ BacktickRun
    \/ InlineCopy
    \/ InlineMath
    \/ DisplayMath
    \/ DefaultCopy
    \/ Return

Spec == Init /\ [][Next]_vars

----------------------------------------------------------------------------
(* Properties of the scanner.  They are stated on the input text and the    *)
(* history, with their own reading of the text: HasAt, Closers, TrimOf.      *)

Stepped == log # <<>>

\* the iteration executed last
Last == log[Len(log)]

\* the scanner was in state Normal before iteration e
Normal0(e) == ~e.fence0 /\ e.inline0 = Null

\* the text pat stands at 0-based position p of the input
HasAt(pat, p) == \A d \in 1..Len(pat) : p + d <= Len(md) /\ md[p + d] = pat[d]

Min(S) == CHOOSE x \in S : \A y \in S : x <= y

\* the positions at or after from where close stands
Closers(close, from) == {k \in from..(Len(md) - 1) : HasAt(close, k)}

\* where the math content opened at position p ends: before the first close, or
\* at the end of the input
ContentEnd(close, p) ==
    IF Closers(close, p + 2) = {} THEN Len(md) ELSE Min(Closers(close, p + 2))

\* t is b without its leading and trailing white space, and nothing else removed
TrimOf(t, b) ==
    \E lo \in 1..(Len(b) + 1), hi \in 0..Len(b) :
        /\ t = SubSeq(b, lo, hi)
        /\ \A x \in 1..(lo - 1) : b[x] \in WhiteSpace
        /\ \A x \in (hi + 1)..Len(b) : b[x] \in WhiteSpace
        /\ t # <<>> => (t[1] \notin WhiteSpace /\ t[Len(t)] \notin WhiteSpace)

\* what the last iteration appended to the output
Emitted == SubSeq(out, Len(Last.out0) + 1, Len(out))

\* the last iteration appended dollars, the trimmed content up to position c,
\* and dollars
WrappedTo(dollars, c) ==
    /\ SubSeq(out, 1, Len(Last.out0)) = Last.out0
    /\ Len(Emitted) >= 2 * Len(dollars)
    /\ SubSeq(Emitted, 1, Len(dollars)) = dollars
    /\ SubSeq(Emitted, Len(Emitted) - Len(dollars) + 1, Len(Emitted)) = dollars
    /\ TrimOf(SubSeq(Emitted, Len(dollars) + 1, Len(Emitted) - Len(dollars)),
              SubSeq(md, Last.i0 + 3, c))

\* the last iteration began in state Normal at an open delimiter whose close
\* delimiter stands later in the input
TerminatedMath(open, close) ==
    /\ Stepped
    /\ Normal0(Last)
    /\ HasAt(open, Last.i0)
    /\ Closers(close, Last.i0 + 2) # {}

\* the last iteration began in state Normal at an open delimiter with no close
\* delimiter in the rest of the input
UnterminatedMath(open, close) ==
    /\ Stepped
    /\ Normal0(Last)
    /\ HasAt(open, Last.i0)
    /\ Closers(close, Last.i0 + 2) = {}

\* C1: in state Normal at \( with a later \), the iteration emits $, the text
\* between them without its leading and trailing white space, and $, and the
\* scan resumes right after the first \).
InlineMathRewritten ==
    TerminatedMath(OpenParen, CloseParen) =>
        /\ WrappedTo(Dollar, ContentEnd(CloseParen, Last.i0))
        /\ i = ContentEnd(CloseParen, Last.i0) + 2

\* C1 witness: \( content \) was rewritten, the content has inner white space
\* that is kept and outer white space that is removed
InlineMathTrimmed ==
    /\ TerminatedMath(OpenParen, CloseParen)
    /\ Len(Emitted) >= 5
    /\ Len(Emitted) < ContentEnd(CloseParen, Last.i0) - Last.i0
    /\ \E x \in 2..(Len(Emitted) - 1) : Emitted[x] \in WhiteSpace

\* C2: in state Normal at \[ with a later \], the iteration emits $$, the text
\* between them without its leading and trailing white space, and $$, and the
\* scan resumes right after the first \].
DisplayMathRewritten ==
    TerminatedMath(OpenBracket, CloseBracket) =>
        /\ WrappedTo(Dollar2, ContentEnd(CloseBracket, Last.i0))
        /\ i = ContentEnd(CloseBracket, Last.i0) + 2

\* C2 witness: \[ ... \] was rewritten to $$a$$, its content longer than a
DisplayMathTrimmed ==
    /\ TerminatedMath(OpenBracket, CloseBracket)
    /\ Emitted = (Dollar2 \o <<"a">>) \o Dollar2
    /\ ContentEnd(CloseBracket, Last.i0) - Last.i0 > 3

\* C8: in state Normal at \( or \[ with no matching close in the rest of the
\* input, the iteration emits the whole trimmed remainder wrapped in $ or $$ and
\* the scan is at the end of the input: nothing is consumed or emitted after it.
UnterminatedMathWrapped ==
    /\ UnterminatedMath(OpenParen, CloseParen) =>
           WrappedTo(Dollar, Len(md)) /\ i = Len(md)
    /\ UnterminatedMath(OpenBracket, CloseBracket) =>
           WrappedTo(Dollar2, Len(md)) /\ i = Len(md)

\* C8 witness: an unterminated \( whose remainder spans a line break has been
\* wrapped and convertMarkdown has returned
UnterminatedMathReturned ==
    /\ UnterminatedMath(OpenParen, CloseParen)
    /\ pc = "done"
    /\ \E x \in (Last.i0 + 3)..Len(md) : md[x] = NL
    /\ Len(Emitted) > 3

\* blanks a fence line may begin with
Blank == {" ", "\t"}

\* position p starts a line that, after blanks, begins with the marker m
LineBegins(p, m) ==
    /\ p = 0 \/ md[p] = NL
    /\ \E j \in p..Len(md) :
           /\ \A x \in (p + 1)..j : md[x] \in Blank
           /\ HasAt(m, j)

\* the position after the line that holds position p, its newline included
EndOfLine(p) ==
    LET nls == {k \in p..(Len(md) - 1) : md[k + 1] = NL}
    IN  IF nls = {} THEN Len(md) ELSE Min(nls) + 1

\* the line starts after p that begin with the marker m
ClosingLines(p, m) == {q \in (p + 1)..(Len(md) - 1) : LineBegins(q, m)}

\* the end of the fenced block opened by the line at p: the end of the next line
\* that begins with the same marker
BlockEnd(p, m) == EndOfLine(Min(ClosingLines(p, m)))

\* iteration e began in state Normal at a line that begins with m, and a later
\* line begins with m: a properly opened and closed fenced block
FencedBlock(e, m) ==
    /\ Normal0(e)
    /\ LineBegins(e.i0, m)
    /\ ClosingLines(e.i0, m) # {}

\* C3: from the opening line of a fenced block to the end of its closing line
\* the scanner stays inside the block and the output is the output before the
\* block followed by the text of the block, unchanged.
FenceOpaque ==
    \A k \in 1..Len(log) : \A m \in {Backticks3, Tildes3} :
        (FencedBlock(log[k], m) /\ Last.i0 < BlockEnd(log[k].i0, m)) =>
            /\ i <= BlockEnd(log[k].i0, m)
            /\ out = log[k].out0 \o SubSeq(md, log[k].i0 + 1, i)

\* C3 witness: the closing line of a fenced block has been copied, and the block
\* holds a \( between its opening and closing lines
FenceClosedOverMath ==
    /\ Stepped
    /\ Last.fence0 /\ ~Last.fence1
    /\ \E k \in 1..Len(log) : \E m \in {Backticks3, Tildes3} :
           /\ FencedBlock(log[k], m)
           /\ i = BlockEnd(log[k].i0, m)
           /\ \E p \in (log[k].i0 + 1)..(Last.i0 - 1) : HasAt(OpenParen, p)

\* the length of the backtick run at position p
RunLen(p) ==
    Min({n \in 1..(Len(md) - p) : p + n = Len(md) \/ md[p + n + 1] # TICK})

\* a backtick run begins at position p
RunStart(p) == HasAt(<<TICK>>, p) /\ (p = 0 \/ md[p] # TICK)

\* the runs after the run at p that have its length
MatchingRuns(p) ==
    {q \in (p + RunLen(p))..(Len(md) - 1) : RunStart(q) /\ RunLen(q) = RunLen(p)}

\* the end of the inline span opened by the run at p
SpanEnd(p) == Min(MatchingRuns(p)) + RunLen(p)

\* iteration e began in state Normal at a backtick run that opens no fence and
\* a later run has the same length: a matched pair of backtick runs
InlineSpan(e) ==
    /\ Normal0(e)
    /\ HasAt(<<TICK>>, e.i0)
    /\ ~LineBegins(e.i0, Backticks3)
    /\ MatchingRuns(e.i0) # {}

\* C4: from the opening backtick run of an inline span to the end of the first
\* later run of equal length the output is the output before the span followed
\* by the text of the span, unchanged.
InlineOpaque ==
    \A k \in 1..Len(log) :
        (InlineSpan(log[k]) /\ Last.i0 < SpanEnd(log[k].i0)) =>
            /\ i <= SpanEnd(log[k].i0)
            /\ out = log[k].out0 \o SubSeq(md, log[k].i0 + 1, i)

\* C4 witness: the closing run of an inline span has been copied, and the span
\* holds a \( between its runs
InlineClosedOverMath ==
    /\ Stepped
    /\ Last.inline0 # Null /\ Last.inline1 = Null
    /\ \E k \in 1..Len(log) :
           /\ InlineSpan(log[k])
           /\ i = SpanEnd(log[k].i0)
           /\ \E p \in (log[k].i0 + 1)..(Last.i0 - 1) : HasAt(OpenParen, p)

\* the input holds no \( and no \[
NoBrackets ==
    \A p \in 0..(Len(md) - 1) : ~HasAt(OpenParen, p) /\ ~HasAt(OpenBracket, p)

\* C5: on an input without \( and \[ the output is the input read so far, and
\* the returned text is the input, character for character.
UnchangedWithoutBrackets ==
    NoBrackets => /\ out = SubSeq(md, 1, i)
                  /\ pc = "done" => out = md

\* C5 witness: convertMarkdown has returned on an input with dollar-style math,
\* code and no bracket delimiter
DollarTextReturned ==
    /\ pc = "done"
    /\ NoBrackets
    /\ \E p \in 0..(Len(md) - 1) : HasAt(<<"$", "a", "$">>, p)
    /\ \E k \in 1..Len(log) : log[k].fence0
    /\ \E k \in 1..Len(log) : log[k].inline0 # Null

\* iteration e is a math rewrite: it began in state Normal at \( or \[
IsMath(e) == Normal0(e) /\ (HasAt(OpenParen, e.i0) \/ HasAt(OpenBracket, e.i0))

MathClose(e) == IF HasAt(OpenParen, e.i0) THEN CloseParen ELSE CloseBracket
MathDollars(e) == IF HasAt(OpenParen, e.i0) THEN Dollar ELSE Dollar2

\* C6 as stated: every iteration puts every character it consumes, the
\* rewritten delimiters excepted, into the output, once and in order.
NothingDiscarded ==
    Stepped =>
        /\ SubSeq(out, 1, Len(Last.out0)) = Last.out0
        /\ IF IsMath(Last)
           THEN Emitted = (MathDollars(Last)
                           \o SubSeq(md, Last.i0 + 3,
                                     ContentEnd(MathClose(Last), Last.i0)))
                          \o MathDollars(Last)
           ELSE Emitted = SubSeq(md, Last.i0 + 1, i)

\* C6 amended: every iteration puts every character it consumes into the
\* output, once and in order, except the rewritten delimiters and the white
\* space at the two ends of a math content.
OnlyOuterWhiteSpaceDiscarded ==
    Stepped =>
        /\ SubSeq(out, 1, Len(Last.out0)) = Last.out0
        /\ IF IsMath(Last)
           THEN /\ WrappedTo(MathDollars(Last), ContentEnd(MathClose(Last), Last.i0))
                /\ i = IF Closers(MathClose(Last), Last.i0 + 2) = {}
                       THEN Len(md)
                       ELSE ContentEnd(MathClose(Last), Last.i0) + 2
           ELSE Emitted = SubSeq(md, Last.i0 + 1, i)

\* C6 witness: a math rewrite after other iterations has removed white space
\* from the ends of its content and kept the rest
OuterWhiteSpaceDiscarded ==
    /\ Stepped
    /\ IsMath(Last)
    /\ Len(log) >= 3
    /\ Len(Emitted) > 2 * Len(MathDollars(Last))
    /\ Len(Emitted) - 2 * Len(MathDollars(Last))
         < ContentEnd(MathClose(Last), Last.i0) - (Last.i0 + 2)

\* the length of the output after iteration k
OutLenAfter(k) == IF k = Len(log) THEN Len(out) ELSE Len(log[k + 1].out0)

\* what iteration k appended, read from the present output
Span(k) == SubSeq(out, Len(log[k].out0) + 1, OutLenAfter(k))

\* C7: the iterations consume the input span by span, in order and without gap
\* or overlap; the output is the concatenation of what they appended; a span
\* that is no math rewrite is in the output as it is in the input, and a math
\* rewrite appended a text wrapped in its dollars.
VerbatimPreserved ==
    /\ \A k \in 1..Len(log) :
           /\ log[k].i0 = IF k = 1 THEN 0 ELSE log[k - 1].i1
           /\ Len(log[k].out0) <= OutLenAfter(k)
           /\ SubSeq(out, 1, Len(log[k].out0)) = log[k].out0
           /\ IF IsMath(log[k])
              THEN /\ Len(Span(k)) >= 2 * Len(MathDollars(log[k]))
                   /\ SubSeq(Span(k), 1, Len(MathDollars(log[k])))
                        = MathDollars(log[k])
                   /\ SubSeq(Span(k), Len(Span(k)) - Len(MathDollars(log[k])) + 1,
                             Len(Span(k))) = MathDollars(log[k])
              ELSE Span(k) = SubSeq(md, log[k].i0 + 1, log[k].i1)
    /\ i = IF Stepped THEN Last.i1 ELSE 0
    /\ pc = "done" => i = Len(md)

\* C7 witness: convertMarkdown has returned after a math rewrite with verbatim
\* spans before and after it, the lines of a fenced block among them
MathBetweenVerbatim ==
    /\ pc = "done"
    /\ \E k \in 2..(Len(log) - 1) : IsMath(log[k])
    /\ \E k \in 1..Len(log) : log[k].fence0 /\ ~log[k].fence1

\* every iteration executed moved the scan position forward, by at least one
\* and not past the end of the input
Advances ==
    /\ \A k \in 1..Len(log) : log[k].i0 < log[k].i1 /\ log[k].i1 <= Len(md)
    /\ i >= 0 /\ i <= Len(md)

\* C9: every iteration advances the scan position by at least one and never
\* past the input length, so an input of n characters is scanned in at most n
\* iterations; convertMarkdown returns only with the whole input scanned, and
\* what it returns is a text.
ScanAdvancesToEnd ==
    /\ Advances
    /\ Len(log) <= Len(md)
    /\ pc \in {"scan", "done"}
    /\ pc = "done" => i = Len(md)
    /\ out \in Seq(Alphabet \cup {"$"})

\* C9 witness: convertMarkdown has returned after iterations of four kinds at
\* least, a fence line and a math rewrite among them
ReturnedAfterManyKinds ==
    /\ pc = "done"
    /\ Cardinality({log[k].br : k \in 1..Len(log)}) >= 4
    /\ \E k \in 1..Len(log) : ~log[k].fence0 /\ log[k].fence1
    /\ \E k \in 1..Len(log) : IsMath(log[k])

----------------------------------------------------------------------------
(* The code state of the scanner: fences, inline spans, the order of the     *)
(* checks.                                                                    *)

Markers == {Backticks3, Tildes3}

\* iteration e began in state Normal at a line that begins with a fence marker
OpensAt(e) ==
    Normal0(e) /\ \E m \in Markers : LineBegins(e.i0, m)

\* iteration e began inside a fence at a line that begins with the marker
\* recorded for the fence
ClosesAt(e) ==
    e.fence0 /\ e.inline0 = Null /\ e.marker0 \in Markers /\ LineBegins(e.i0, e.marker0)

\* the last iteration copied the one character at its position
CopiedOne == i = Last.i0 + 1 /\ Emitted = <<md[Last.i0 + 1]>>

\* the last iteration copied the whole backtick run at its position
CopiedRun ==
    /\ i = Last.i0 + RunLen(Last.i0)
    /\ Emitted = SubSeq(md, Last.i0 + 1, i)
    /\ \A x \in 1..Len(Emitted) : Emitted[x] = TICK

\* the last iteration copied the whole line at its position, newline included
CopiedLine ==
    i = EndOfLine(Last.i0) /\ Emitted = SubSeq(md, Last.i0 + 1, i)

\* C11: the checks are made in this order at every scan position.  At a line
\* start outside inline code a fence line is handled first: the whole line is
\* copied, so three backticks there open a fence and no inline span.  Outside
\* a fence, a backtick is handled next, as a copied run that opens or closes
\* inline code and never as math.  Only then, in state Normal, \( or \[ starts
\* a math rewrite, and whatever is left is copied as one character.
BranchPriority ==
    Stepped =>
        IF OpensAt(Last)
        THEN CopiedLine /\ Last.fence1 /\ Last.inline1 = Null
        ELSE IF ClosesAt(Last)
        THEN CopiedLine /\ ~Last.fence1 /\ Last.inline1 = Null
        ELSE IF Last.fence0
        THEN CopiedOne /\ Last.fence1
        ELSE IF HasAt(<<TICK>>, Last.i0)
        THEN CopiedRun /\ ~Last.fence1
        ELSE IF Last.inline0 # Null
        THEN CopiedOne /\ Last.inline1 = Last.inline0
        ELSE IF HasAt(OpenParen, Last.i0) \/ HasAt(OpenBracket, Last.i0)
        THEN /\ Len(Emitted) >= 2 /\ Emitted[1] = "$"
             /\ i >= Last.i0 + 2
             /\ Normal0([fence0 |-> Last.fence1, inline0 |-> Last.inline1])
        ELSE CopiedOne /\ Normal0([fence0 |-> Last.fence1, inline0 |-> Last.inline1])

\* C11 witness: three backticks at a line start in state Normal have opened a
\* fence, after a single backtick at a line start had opened an inline span
TicksOpenedFenceNotInline ==
    /\ Stepped
    /\ Normal0(Last)
    /\ HasAt(Backticks3, Last.i0)
    /\ Last.fence1 /\ Last.inline1 = Null
    /\ \E k \in 1..(Len(log) - 1) :
           /\ Normal0(log[k])
           /\ HasAt(<<TICK>>, log[k].i0)
           /\ log[k].inline1 # Null /\ ~log[k].fence1

\* the marker that is not m
Other(m) == IF m = Backticks3 THEN Tildes3 ELSE Backticks3

\* C12: inside a fence the recorded marker is the one the opening line began
\* with, and an iteration leaves the fence exactly when it starts at a line
\* that, after blanks, begins with that marker: the whole closing line, text
\* after the marker and newline included, is copied and the state is Normal.
\* At any other position, a line beginning with the other marker included, one
\* character is copied and the fence and its marker stay.
FenceClosedByOwnMarker ==
    /\ \A k \in 1..Len(log) :
           (~log[k].fence0 /\ log[k].fence1) =>
               /\ log[k].marker1 \in Markers
               /\ LineBegins(log[k].i0, log[k].marker1)
    /\ (Stepped /\ Last.fence0) =>
           /\ Last.marker0 \in Markers
           /\ IF LineBegins(Last.i0, Last.marker0)
              THEN /\ CopiedLine
                   /\ ~Last.fence1 /\ Last.inline1 = Null /\ Last.marker1 = Null
              ELSE /\ CopiedOne
                   /\ Last.fence1 /\ Last.marker1 = Last.marker0

\* C12 witness: a closing line with text after its marker and a newline has
\* been copied and closed the fence, after a line beginning with the other
\* marker had been passed inside that fence
FenceClosedAfterOtherMarker ==
    /\ Stepped
    /\ Last.fence0 /\ ~Last.fence1
    /\ Len(Emitted) > 4 /\ Emitted[Len(Emitted)] = NL
    /\ \E k \in 1..(Len(log) - 1) :
           /\ log[k].fence0 /\ log[k].fence1
           /\ log[k].marker0 = Last.marker0
           /\ LineBegins(log[k].i0, Other(log[k].marker0))

\* C13: inside inline code opened by k backticks, a backtick run is copied
\* whole; a run of k backticks returns the state to Normal and a run of any
\* other length leaves the delimiter as it was.
InlineClosedByEqualRun ==
    (Stepped /\ Last.inline0 # Null /\ HasAt(<<TICK>>, Last.i0)) =>
        /\ CopiedRun
        /\ ~Last.fence1
        /\ Last.inline1 = IF RunLen(Last.i0) = Len(Last.inline0)
                          THEN Null ELSE Last.inline0

\* C13 witness: a run of the opening length has closed inline code, after a run
\* of another length had been copied inside it
InlineClosedAfterOtherRun ==
    /\ Stepped
    /\ Last.inline0 # Null /\ Last.inline1 = Null
    /\ \E k \in 1..(Len(log) - 1) :
           /\ log[k].inline0 = Last.inline0
           /\ HasAt(<<TICK>>, log[k].i0)
           /\ RunLen(log[k].i0) # Len(log[k].inline0)
           /\ log[k].inline1 = log[k].inline0

\* C14: inside inline code, at a line that begins with a fence marker, no
\* fence is opened or closed: the fence flag and the marker are unchanged, a
\* backtick there is copied as a backtick run and any other character as one
\* character of the inline code.
FenceChecksSuppressedInInline ==
    (Stepped /\ Last.inline0 # Null /\ \E m \in Markers : LineBegins(Last.i0, m)) =>
        /\ ~Last.fence0 /\ ~Last.fence1
        /\ Last.marker1 = Last.marker0
        /\ IF HasAt(<<TICK>>, Last.i0)
           THEN CopiedRun
           ELSE CopiedOne /\ Last.inline1 = Last.inline0

\* C14 witness: convertMarkdown has returned after passing, inside inline code,
\* a line beginning with three backticks and a line beginning with three tildes
FenceLinesPassedInInline ==
    /\ pc = "done"
    /\ \A m \in Markers : \E k \in 1..Len(log) :
           /\ log[k].inline0 # Null
           /\ HasAt(m, log[k].i0)
           /\ LineBegins(log[k].i0, m)
           /\ ~log[k].fence1

\* iteration e opened a fence that no later line closes
UnterminatedFence(e) ==
    /\ Normal0(e)
    /\ \E m \in Markers : LineBegins(e.i0, m) /\ ClosingLines(e.i0, m) = {}

\* iteration e opened an inline span that no later run closes
UnterminatedInline(e) ==
    /\ Normal0(e)
    /\ HasAt(<<TICK>>, e.i0)
    /\ ~LineBegins(e.i0, Backticks3)
    /\ MatchingRuns(e.i0) = {}

\* C15: from the opening of a fence that no later line closes, or of an inline
\* span that no later run closes, the output is the output before the opening
\* followed by the input from the opening on, unchanged; the scanner stays in
\* the code state and convertMarkdown returns with the whole input copied.
UnterminatedCodeCopied ==
    \A k \in 1..Len(log) :
        /\ UnterminatedFence(log[k]) =>
               /\ inFence
               /\ out = log[k].out0 \o SubSeq(md, log[k].i0 + 1, i)
               /\ pc = "done" => i = Len(md)
        /\ UnterminatedInline(log[k]) =>
               /\ inInline # Null
               /\ out = log[k].out0 \o SubSeq(md, log[k].i0 + 1, i)
               /\ pc = "done" => i = Len(md)

\* C15 witness: convertMarkdown has returned inside a fence that was never
\* closed, and the remainder after the opening line holds \( ... \)
UnterminatedFenceReturned ==
    /\ pc = "done"
    /\ \E k \in 1..Len(log) :
           /\ UnterminatedFence(log[k])
           /\ \E p \in log[k].i1..Len(md) : HasAt(OpenParen, p)
           /\ \E p \in log[k].i1..Len(md) : HasAt(CloseParen, p)

\* C16: an iteration that begins in state Normal at a line start where the
\* line, after blanks, begins with a marker enters the fence, records that
\* marker of three characters whatever follows it, and copies the whole line,
\* its newline included; a fence is entered in no other way.
FenceOpenedWithMarker ==
    Stepped =>
        /\ OpensAt(Last) =>
               /\ Last.fence1 /\ Last.inline1 = Null
               /\ Last.marker1 \in Markers /\ Len(Last.marker1) = 3
               /\ LineBegins(Last.i0, Last.marker1)
               /\ CopiedLine
        /\ (~Last.fence0 /\ Last.fence1) => OpensAt(Last)

\* C16 witness: a line of blanks, four backticks and info text has opened a
\* fence whose recorded marker is three backticks, and a later line of three
\* backticks has closed it
LongRunOpenedFence ==
    /\ Stepped
    /\ Last.fence0 /\ ~Last.fence1
    /\ HasAt(Backticks3, Last.i0) /\ ~HasAt(<<TICK, TICK, TICK, TICK>>, Last.i0)
    /\ \E k \in 1..(Len(log) - 1) :
           /\ Normal0(log[k])
           /\ HasAt(<<" ", "\t", TICK, TICK, TICK, TICK, "a", NL>>, log[k].i0)
           /\ log[k].i1 = log[k].i0 + 8
           /\ log[k].marker1 = Backticks3
           /\ \A x \in (k + 1)..Len(log) : log[x].fence0

----------------------------------------------------------------------------
(* The three-state machine Normal | InFence{marker} | InInline{delimiter}:   *)
(* its states, and its transitions read on the input text.                   *)

StNormal == [tag |-> "Normal", arg |-> Null]
StInFence(m) == [tag |-> "InFence", arg |-> m]
StInInline(d) == [tag |-> "InInline", arg |-> d]

\* a nonempty text of backticks only
TickRun(d) == d # Null /\ \A x \in 1..Len(d) : d[x] = TICK

\* the flags f (inFence), m (fenceMarker), d (inInline) stand for exactly one
\* of the three states
OneState(f, m, d) ==
    \/ ~f /\ m = Null /\ d = Null
    \/ f /\ m \in Markers /\ d = Null
    \/ ~f /\ m = Null /\ TickRun(d)

\* the state the flags stand for
StateOf(f, m, d) ==
    IF f THEN StInFence(m) ELSE IF d # Null THEN StInInline(d) ELSE StNormal

Max(S) == CHOOSE x \in S : \A y \in S : x >= y

\* b without its leading and trailing white space
TrimmedOf(b) ==
    LET kept == {x \in 1..Len(b) : b[x] \notin WhiteSpace}
    IN  IF kept = {} THEN <<>> ELSE SubSeq(b, Min(kept), Max(kept))

\* the machine at q = [pos, state, out] copies the input up to position p and
\* goes to state st
Copying(q, p, st) ==
    [pos |-> p, state |-> st, out |-> q.out \o SubSeq(md, q.pos + 1, p)]

\* the machine at q rewrites the math content that close ends
Rewriting(q, close, dollars) ==
    LET c == ContentEnd(close, q.pos)
    IN  [pos   |-> IF Closers(close, q.pos + 2) = {} THEN Len(md) ELSE c + 2,
         state |-> StNormal,
         out   |-> ((q.out \o dollars) \o TrimmedOf(SubSeq(md, q.pos + 3, c)))
                   \o dollars]

\* one transition of the machine
MachineStep(q) ==
    CASE q.state.tag = "Normal" ->
           IF \E m \in Markers : LineBegins(q.pos, m)
           THEN Copying(q, EndOfLine(q.pos),
                        StInFence(CHOOSE m \in Markers : LineBegins(q.pos, m)))
           ELSE IF HasAt(<<TICK>>, q.pos)
           THEN Copying(q, q.pos + RunLen(q.pos),
                        StInInline(SubSeq(md, q.pos + 1, q.pos + RunLen(q.pos))))
           ELSE IF HasAt(OpenParen, q.pos) THEN Rewriting(q, CloseParen, Dollar)
           ELSE IF HasAt(OpenBracket, q.pos) THEN Rewriting(q, CloseBracket, Dollar2)
           ELSE Copying(q, q.pos + 1, StNormal)
      [] q.state.tag = "InFence" ->
           IF LineBegins(q.pos, q.state.arg)
           THEN Copying(q, EndOfLine(q.pos), StNormal)
           ELSE Copying(q, q.pos + 1, q.state)
      [] q.state.tag = "InInline" ->
           IF HasAt(<<TICK>>, q.pos)
           THEN Copying(q, q.pos + RunLen(q.pos),
                        IF RunLen(q.pos) = Len(q.state.arg) THEN StNormal
                        ELSE q.state)
           ELSE Copying(q, q.pos + 1, q.state)

\* where the machine stands when the scanner has the flags f, m, d at position
\* p with output o
MachineAt(p, f, m, d, o) == [pos |-> p, state |-> StateOf(f, m, d), out |-> o]

\* C17: the flags of the scanner always stand for exactly one state of the
\* three-state machine; the scanner starts where the machine starts, and every
\* iteration of the scanner is the transition of the machine from the state
\* the flags stood for: same next position, same next state, same output.
RefinesThreeStates ==
    /\ OneState(inFence, fenceMarker, inInline)
    /\ ~Stepped => MachineAt(i, inFence, fenceMarker, inInline, out)
                      = [pos |-> 0, state |-> StNormal, out |-> <<>>]
    /\ Stepped =>
           /\ OneState(Last.fence0, Last.marker0, Last.inline0)
           /\ MachineStep(MachineAt(Last.i0, Last.fence0, Last.marker0,
                                    Last.inline0, Last.out0))
                = MachineAt(i, inFence, fenceMarker, inInline, out)

\* C17 witness: scanner and machine have gone together from Normal into a
\* fence, back to Normal at its closing line, and into inline code
ThreeStatesVisited ==
    /\ Stepped
    /\ StateOf(inFence, fenceMarker, inInline).tag = "InInline"
    /\ \E k \in 1..Len(log) :
           /\ StateOf(log[k].fence0, log[k].marker0, log[k].inline0).tag = "InFence"
           /\ StateOf(log[k].fence1, log[k].marker1, log[k].inline1) = StNormal

----------------------------------------------------------------------------
(* Invariants of the flags, the frame of a math rewrite, the output length   *)

\* C18: in every state of the scan inFence and a non-false inInline do not
\* hold together, and fenceMarker is non-null exactly when inFence holds: it
\* is one of the two markers then, and null otherwise.
FlagsConsistent ==
    pc \in {"scan", "done"} =>
        /\ ~(inFence /\ inInline # Null)
        /\ fenceMarker # Null <=> inFence
        /\ inFence => fenceMarker \in Markers
        /\ ~inFence => fenceMarker = Null
        /\ \A k \in 1..Len(log) :
               /\ ~(log[k].fence0 /\ log[k].inline0 # Null)
               /\ log[k].marker0 # Null <=> log[k].fence0

\* C18 witness: the scanner is inside a fence opened by three tildes, with its
\* marker recorded and inline code off, after an inline span was opened and
\* closed
FenceAfterInline ==
    /\ pc = "scan"
    /\ inFence /\ fenceMarker = Tildes3 /\ inInline = Null
    /\ \E k \in 1..Len(log) : log[k].inline0 # Null /\ log[k].inline1 = Null

\* C19: a rewrite is made only from state Normal at \( or \[ and ends in
\* state Normal with no marker; it consumes everything up to the first close
\* delimiter, or to the end of the input, as math content, whatever backticks,
\* newlines and fence lines it holds, so the scan resumes after the close
\* delimiter and no iteration starts in between.
MathKeepsCodeState ==
    Stepped =>
        /\ Emitted # SubSeq(md, Last.i0 + 1, i) => IsMath(Last)
        /\ IsMath(Last) =>
               /\ ~Last.fence1 /\ Last.inline1 = Null /\ Last.marker1 = Null
               /\ ~inFence /\ inInline = Null /\ fenceMarker = Null
               /\ i = IF Closers(MathClose(Last), Last.i0 + 2) = {}
                      THEN Len(md)
                      ELSE ContentEnd(MathClose(Last), Last.i0) + 2
               /\ WrappedTo(MathDollars(Last), ContentEnd(MathClose(Last), Last.i0))
        /\ \A k \in 1..Len(log) : \A x \in 1..Len(log) :
               IsMath(log[k]) => ~(log[k].i0 < log[x].i0 /\ log[x].i0 < log[k].i1)

\* C19 witness: a display math rewrite has consumed, up to its \], a content
\* with a newline, a line beginning with three backticks and a single
\* backtick, and the scanner is in state Normal
MathOverCodeMarks ==
    /\ Stepped
    /\ IsMath(Last)
    /\ Closers(MathClose(Last), Last.i0 + 2) # {}
    /\ ~inFence /\ inInline = Null
    /\ \E p \in (Last.i0 + 2)..(i - 3) :
           /\ LineBegins(p, Backticks3)
           /\ HasAt(<<TICK>> \o MathClose(Last), i - 3)
           /\ p + 3 < i - 3

\* C20: the output is never more than two characters longer than the input
\* read; it is longer only after a \[ with no \] in the rest of the input,
\* which ends the scan; and a \( ... \) with its \) present appends at least
\* two characters fewer than it consumes.
OutputLengthBound ==
    /\ Len(out) <= i + 2
    /\ pc = "done" => Len(out) <= Len(md) + 2
    /\ Len(out) > i =>
           /\ UnterminatedMath(OpenBracket, CloseBracket)
           /\ i = Len(md)
    /\ \A k \in 1..Len(log) :
           (Normal0(log[k]) /\ HasAt(OpenParen, log[k].i0)
              /\ Closers(CloseParen, log[k].i0 + 2) # {}) =>
               Len(Span(k)) + 2 <= log[k].i1 - log[k].i0

\* C20 witness: convertMarkdown has returned after a \( ... \) that made the
\* output two characters shorter and a final unterminated \[ that made it two
\* characters longer
ShrunkThenGrown ==
    /\ pc = "done"
    /\ UnterminatedMath(OpenBracket, CloseBracket)
    /\ Len(Emitted) = (i - Last.i0) + 2
    /\ Len(out) = Len(md)
    /\ \E k \in 1..(Len(log) - 1) :
           /\ Normal0(log[k]) /\ HasAt(OpenParen, log[k].i0)
           /\ Len(Span(k)) + 2 = log[k].i1 - log[k].i0

----------------------------------------------------------------------------
(* The command line front end: parseArgs, processFile, main *)

\* the words a command line is drawn from: every flag, and three paths
Flags == {"--write", "--stdin", "--stdout", "-q", "--quiet",
          "-v", "--version", "-h", "--help"}
FilePath == "f.md"
DirPath == "docs"
MissingPath == "nofile"
ArgWords == Flags \cup {FilePath, DirPath, MissingPath}

\* the file system: docs holds a markdown file and another file
DirEntries == <<"docs/g.md", "docs/n.txt">>
FileNames == {FilePath, "docs/g.md", "docs/n.txt"}
\* names matching /\.(md|markdown)$/i
MarkdownNames == {FilePath, "docs/g.md"}

SampleText == <<"a", " ">> \o OpenParen \o <<" ", "a">> \o CloseParen
CliTexts == {<<>>, SampleText, OpenBracket \o <<"a">>}

\* const args = { paths: [], write: false, quiet: false, stdin: false, stdout: false };
\* a field a returned object lacks reads as undefined, which is false here
NoArgs ==
    [paths |-> <<>>, write |-> FALSE, quiet |-> FALSE, stdin |-> FALSE,
     stdout |-> FALSE, version |-> FALSE, help |-> FALSE]

\* for (let i = 2; i < argv.length; i++) { ... }, k the 0-based index
RECURSIVE ParseFrom(_, _, _)
ParseFrom(av, k, a) ==
    IF ~(k < Len(av)) THEN a
    ELSE LET w == av[k + 1]
         IN  IF w = "--write" THEN ParseFrom(av, k + 1, [a EXCEPT !.write = TRUE])
             ELSE IF w = "--stdin" THEN ParseFrom(av, k + 1, [a EXCEPT !.stdin = TRUE])
             ELSE IF w = "--stdout" THEN ParseFrom(av, k + 1, [a EXCEPT !.stdout = TRUE])
             ELSE IF w = "-q" \/ w = "--quiet"
                  THEN ParseFrom(av, k + 1, [a EXCEPT !.quiet = TRUE])
             ELSE IF w = "-v" \/ w = "--version" THEN [NoArgs EXCEPT !.version = TRUE]
             ELSE IF w = "-h" \/ w = "--help" THEN [NoArgs EXCEPT !.help = TRUE]
             ELSE ParseFrom(av, k + 1, [a EXCEPT !.paths = Append(a.paths, w)])

parseArgs(av) == ParseFrom(av, 2, NoArgs)

Item(kind, path, text) == [kind |-> kind, path |-> path, text |-> text]

\* the effects of main so far
Effects == [printed |-> printed, errors |-> errors, disk |-> disk,
            exitCode |-> exitCode, thrown |-> FALSE]

processFile(ev, filePath, write, quiet, forceStdout) ==
    LET converted == convertMarkdown(ev.disk[filePath])
    IN  IF write /\ ~forceStdout
        THEN [ev EXCEPT !.disk[filePath] = converted,
                        !.printed = IF quiet THEN @
                                    ELSE Append(@, Item("updated", filePath, <<>>))]
        ELSE [ev EXCEPT !.printed = Append(@, Item("text", "", converted)),
                        !.errors = IF quiet THEN @
                                   ELSE Append(@, Item("converted", filePath, <<>>))]

\* walk(p): the markdown files of the directory, in order
RECURSIVE Walk(_, _, _, _)
Walk(ev, entries, k, a) ==
    IF k > Len(entries) THEN ev
    ELSE IF entries[k] \in MarkdownNames
         THEN Walk(processFile(ev, entries[k], a.write, a.quiet, a.stdout),
                   entries, k + 1, a)
         ELSE Walk(ev, entries, k + 1, a)

\* for (const p of args.paths) { ... }: fs.statSync raises on a missing path
RECURSIVE ProcessPaths(_, _, _)
ProcessPaths(ev, k, a) ==
    IF k > Len(a.paths) THEN ev
    ELSE LET p == a.paths[k]
         IN  IF p = DirPath THEN ProcessPaths(Walk(ev, DirEntries, 1, a), k + 1, a)
             ELSE IF p \in FileNames
                  THEN ProcessPaths(processFile(ev, p, a.write, a.quiet, a.stdout),
                                    k + 1, a)
             ELSE [ev EXCEPT !.thrown = TRUE]

\* main().catch((err) => { console.error(...); process.exitCode = 1; });
Caught(ev) ==
    IF ev.thrown
    THEN [ev EXCEPT !.errors = Append(@, Item("error", "", <<>>)), !.exitCode = 1]
    ELSE ev

Finish(ev) ==
    /\ printed' = Caught(ev).printed
    /\ errors' = Caught(ev).errors
    /\ disk' = Caught(ev).disk
    /\ exitCode' = Caught(ev).exitCode
    /\ mpc' = "done"
    /\ UNCHANGED <<md, i, out, inFence, fenceMarker, inInline, pc, log,
                   argv, input, stdinFails>>

\* if (args.help) return printHelp();
MainHelp ==
    /\ mpc = "start"
    /\ parseArgs(argv).help
    /\ Finish([Effects EXCEPT !.printed = Append(@, Item("help", "", <<>>))])

\* if (args.version) return printVersion();
MainVersion ==
    /\ mpc = "start"
    /\ ~parseArgs(argv).help
    /\ parseArgs(argv).version
    /\ Finish([Effects EXCEPT !.printed = Append(@, Item("version", "", <<>>))])

\* if (args.stdin) { ... process.stdout.write(out); return; }
MainStdin ==
    /\ mpc = "start"
    /\ ~parseArgs(argv).help
    /\ ~parseArgs(argv).version
    /\ parseArgs(argv).stdin
    /\ IF stdinFails
       THEN Finish([Effects EXCEPT !.thrown = TRUE])
       ELSE Finish([Effects EXCEPT
                      !.printed = Append(@, Item("text", "", convertMarkdown(input)))])

\* mutant: the help is printed and the exit code is left unset
MainNoPathsExitZero ==
    /\ mpc = "start"
    /\ ~parseArgs(argv).help
    /\ ~parseArgs(argv).version
    /\ ~parseArgs(argv).stdin
    /\ Len(parseArgs(argv).paths) = 0
    /\ Finish([Effects EXCEPT !.printed = Append(@, Item("help", "", <<>>))])

\* if (args.paths.length === 0) { printHelp(); process.exitCode = 1; return; }
MainNoPaths ==
    /\ mpc = "start"
    /\ ~parseArgs(argv).help
    /\ ~parseArgs(argv).version
    /\ ~parseArgs(argv).stdin
    /\ Len(parseArgs(argv).paths) = 0
    /\ Finish([Effects EXCEPT !.printed = Append(@, Item("help", "", <<>>)),
                              !.exitCode = 1])

\* for (const p of args.paths) { ... }
MainPaths ==
    /\ mpc = "start"
    /\ ~parseArgs(argv).help
    /\ ~parseArgs(argv).version
    /\ ~parseArgs(argv).stdin
    /\ Len(parseArgs(argv).paths) # 0
    /\ Finish(ProcessPaths(Effects, 1, parseArgs(argv)))

\* convertMarkdown is not stepped while main runs: main calls it as a function
IdleScanner ==
    /\ md = <<>>
    /\ i = 0
    /\ out = <<>>
    /\ inFence = FALSE
    /\ fenceMarker = Null
    /\ inInline = Null
    /\ pc = "idle"
    /\ log = <<>>

InitCli ==
    /\ IdleScanner
    /\ argv \in {<<"node", "latex-math-convert">> \o w : w \in SeqsUpTo(ArgWords, MaxArgs)}
    /\ input \in CliTexts
    /\ stdinFails \in BOOLEAN
    /\ disk = [f \in FileNames |-> SampleText]
    /\ mpc = "start"
    /\ printed = <<>>
    /\ errors = <<>>
    /\ exitCode = 0

NextCli ==
    \/ MainHelp
    \/ MainVersion
    \/ MainStdin
    \/ MainNoPaths
    \/ MainPaths

SpecCli == InitCli /\ [][NextCli]_vars

----------------------------------------------------------------------------
(* Properties of the command line front end *)

\* the words given on the command line, after node and the script
GivenWords == {argv[k] : k \in 3..Len(argv)}

StdinAsked == "--stdin" \in GivenWords
PathGiven == GivenWords \ Flags # {}
HelpOrVersionAsked == GivenWords \cap {"-h", "--help", "-v", "--version"} # {}

HelpItem == Item("help", "", <<>>)

\* the converted text of each text standard input is drawn from
ExpectedOutput(t) ==
    CASE t = <<>> -> <<>>
      [] t = SampleText -> <<"a", " ", "$", "a", "$">>
      [] t = OpenBracket \o <<"a">> -> <<"$", "$", "a", "$", "$">>

\* C10 as stated: without --stdin and without a path main prints the help and
\* ends with a non-zero status; with --stdin main writes the converted standard
\* input to standard output and ends with status zero (an error reading
\* standard input is taken to be outside the statement).
ExitStatusAsStated ==
    mpc = "done" =>
        /\ (~StdinAsked /\ ~PathGiven) => (printed = <<HelpItem>> /\ exitCode # 0)
        /\ (StdinAsked /\ ~stdinFails) =>
               /\ printed = <<Item("text", "", ExpectedOutput(input))>>
               /\ exitCode = 0

\* C10 amended: when none of -h, --help, -v, --version is given: without
\* --stdin and without a path main prints the help and ends with status 1; with
\* --stdin, and standard input read without an error, main writes the converted
\* standard input to standard output and ends with status zero, paths or not.
ExitStatus ==
    (mpc = "done" /\ ~HelpOrVersionAsked) =>
        /\ (~StdinAsked /\ ~PathGiven) => (printed = <<HelpItem>> /\ exitCode = 1)
        /\ (StdinAsked /\ ~stdinFails) =>
               /\ printed = <<Item("text", "", ExpectedOutput(input))>>
               /\ exitCode = 0

\* C10 witness: main has ended with status 1 after printing the help, on a
\* command line of flags only, with neither --stdin nor a path
HelpAndStatusOne ==
    /\ mpc = "done"
    /\ GivenWords # {}
    /\ ~HelpOrVersionAsked /\ ~StdinAsked /\ ~PathGiven
    /\ printed = <<HelpItem>>
    /\ exitCode = 1

====
